---- MODULE Spec2Model ----
(***************************************************************************)
(* The JOS kernel monitor (kern/monitor.c): the read/tokenize/dispatch     *)
(* loop and the commands help, kerninfo, backtrace, showmappings and       *)
(* setpermission, over a two-level x86 page table.                         *)
(*                                                                         *)
(* Characters are one-character strings, NUL is the empty string.  A line  *)
(* buffer is a sequence of characters ending in NUL; a char* into it is a  *)
(* 1-based index, and the null pointer is 0.  Addresses and page-table     *)
(* entries are 32-bit words.                                               *)
(***************************************************************************)
EXTENDS Integers, Sequences, FiniteSets, TLC

VARIABLES
  pc,        \* where monitor() is: "prompt", "showmapping", "panic", "fault", "exited"
  kern_pgdir,\* the set of page-directory indices that have a page table
  ptab,      \* the leaf entries: page number -> 32-bit entry word
  stack,     \* the memory backtrace reads: address -> word
  line,      \* what readline returned last (NULLLINE for a null line)
  buf,       \* the line buffer as runcmd left it
  argc,      \* runcmd's argc
  argv,      \* runcmd's argv[MAXARGS]
  handler,   \* the commands[] entry runcmd invoked (0 for none)
  ret,       \* what runcmd returned to monitor()
  out,       \* the console output of the current command
  walks,     \* the pgdir_walk calls of the current command: <<address, create>>
  begin,     \* mon_showmapping's begin
  end,       \* mon_showmapping's end
  rt         \* the last set-then-clear pair of setpermission runs

vars == <<pc, kern_pgdir, ptab, stack, line, buf, argc, argv, handler, ret,
          out, walks, begin, end, rt>>

-----------------------------------------------------------------------------
(* Bounds of the model *)

\* the largest number of tokens on an input line
MaxTokens == 17
\* the most iterations of mon_showmapping's loop that are followed
MaxVisits == 4
\* the longest frame-pointer chain on the stack
MaxFrames == 3

-----------------------------------------------------------------------------
(* Machine words *)

(* A 32-bit word is kept as its upper 20 and its lower 12 bits, the page   *)
(* number and the page offset of an address.                               *)

HI == 1048576
LO == 4096

W(h, l) == [hi |-> h, lo |-> l]

\* the word of a small non-negative int
WInt(n) == W(n \div LO, n % LO)

W0 == W(0, 0)

\* PGSIZE as a number of bytes
PGSIZE == 4096
PTE_P == 1
PTE_W == 2
PTE_U == 4
MAXARGS == 16

RECURSIVE BitAndN(_, _, _)
BitAndN(a, b, n) ==
  IF n = 0 THEN 0
  ELSE (a % 2) * (b % 2) + 2 * BitAndN(a \div 2, b \div 2, n - 1)

RECURSIVE BitOrN(_, _, _)
BitOrN(a, b, n) ==
  IF n = 0 THEN 0
  ELSE (IF a % 2 = 1 \/ b % 2 = 1 THEN 1 ELSE 0)
       + 2 * BitOrN(a \div 2, b \div 2, n - 1)

\* a & b on 32-bit words
BitAnd(a, b) == W(BitAndN(a.hi, b.hi, 20), BitAndN(a.lo, b.lo, 12))

\* a | b on 32-bit words
BitOr(a, b) == W(BitOrN(a.hi, b.hi, 20), BitOrN(a.lo, b.lo, 12))

\* ~a on a 32-bit word
BitNot(a) == W(HI - 1 - a.hi, LO - 1 - a.lo)

\* a + n modulo 2^32, for a small non-negative int n
WAdd(a, n) ==
  W((a.hi + (a.lo + n) \div LO) % HI, (a.lo + n) % LO)

\* a - b modulo 2^32
WSub(a, b) ==
  IF a.lo >= b.lo THEN W((a.hi - b.hi + HI) % HI, a.lo - b.lo)
  ELSE W((a.hi - b.hi - 1 + 2 * HI) % HI, a.lo + LO - b.lo)

\* a <= b and a < b on unsigned 32-bit words
WLe(a, b) == a.hi < b.hi \/ (a.hi = b.hi /\ a.lo <= b.lo)
WLt(a, b) == a.hi < b.hi \/ (a.hi = b.hi /\ a.lo < b.lo)

\* PTE_ADDR(pte): the frame address of an entry
PTE_ADDR(pte) == BitAnd(pte, BitNot(WInt(PGSIZE - 1)))

\* PDX(va): the page-directory index of an address
PDX(va) == va.hi \div 1024

\* the page number of an address (PDX and PTX together)
PGNUM(va) == va.hi

\* the offset of an address in its page
PGOFF(va) == va.lo

-----------------------------------------------------------------------------
(* Characters and strings *)

NUL == ""
WHITESPACE == {"\t", "\r", "\n", " "}
NULLLINE == <<"NULL">>

\* IsSpace with a WHITESPACE that lacks the carriage return
IsSpace_NoCR(c) == c \in {"\t", "\n", " "}

\* strchr(WHITESPACE, c) for a character c other than NUL
IsSpace(c) == c \in WHITESPACE

\* the string that starts at p in b: the characters before the next NUL
RECURSIVE CStr(_, _)
CStr(b, p) == IF b[p] = NUL THEN <<>> ELSE <<b[p]>> \o CStr(b, p + 1)

-----------------------------------------------------------------------------
(* The command table *)

help_name == <<"h", "e", "l", "p">>
kerninfo_name == <<"k", "e", "r", "n", "i", "n", "f", "o">>
backtrace_name == <<"b", "a", "c", "k", "t", "r", "a", "c", "e">>
showmappings_name == <<"s", "h", "o", "w", "m", "a", "p", "p", "i", "n", "g", "s">>
setpremission_name == <<"s", "e", "t", "p", "r", "e", "m", "i", "s", "s", "i", "o", "n">>

\* commands[]: name, description and handler of every command, in order
commands ==
  << [name |-> help_name, desc |-> "Display this list of commands",
      func |-> "mon_help"],
     [name |-> kerninfo_name, desc |-> "Display information about the kernel",
      func |-> "mon_kerninfo"],
     [name |-> backtrace_name, desc |-> "Display backtrack of the call",
      func |-> "mon_backtrace"],
     [name |-> showmappings_name,
      desc |-> "Display virtual/linear to physical mapping",
      func |-> "mon_showmapping"],
     [name |-> setpremission_name, desc |-> "Set permission of page table",
      func |-> "mon_setpermission"] >>

\* NCOMMANDS one short
NCOMMANDS_OneShort == Len(commands) - 1

\* ARRAY_SIZE(commands)
NCOMMANDS == Len(commands)

-----------------------------------------------------------------------------
(* runcmd: the tokenizer *)

\* argv[] before runcmd has stored anything in it (-1: not initialised)
ArgvFresh == [i \in 0 .. MAXARGS - 1 |-> -1]

\* Gobble leaving the whitespace in the buffer
RECURSIVE Gobble_NoTerminators(_, _)
Gobble_NoTerminators(b, p) ==
  IF b[p] # NUL /\ IsSpace(b[p])
  THEN Gobble_NoTerminators(b, p + 1)
  ELSE [buf |-> b, p |-> p]

\* "gobble whitespace": overwrite the whitespace at p with NULs; the buffer
\* and the position of the first character that is not whitespace
RECURSIVE Gobble(_, _)
Gobble(b, p) ==
  IF b[p] # NUL /\ IsSpace(b[p])
  THEN Gobble([b EXCEPT ![p] = NUL], p + 1)
  ELSE [buf |-> b, p |-> p]

\* "scan past next arg": the position of the first NUL or whitespace from p
RECURSIVE ScanArg(_, _)
ScanArg(b, p) ==
  IF b[p] # NUL /\ ~IsSpace(b[p]) THEN ScanArg(b, p + 1) ELSE p

\* argv[n] = p; a store past the end of argv[MAXARGS] shows as a slot n that
\* the array does not have
StoreArg(av, n, p) ==
  [i \in DOMAIN av \cup {n} |-> IF i = n THEN p ELSE av[i]]

\* TooMany one argument late
TooMany_Late(n) == n = MAXARGS

\* TooMany one argument early
TooMany_Early(n) == n = MAXARGS - 2

\* the test that refuses one more argument
TooMany(n) == n = MAXARGS - 1

\* the while (1) loop of runcmd from position p with n arguments stored
RECURSIVE TokLoop(_, _, _, _)
TokLoop(b, p, n, av) ==
  LET g == Gobble(b, p) IN
  IF g.buf[g.p] = NUL
  THEN [buf |-> g.buf, argc |-> n, argv |-> av, toomany |-> FALSE]
  ELSE IF TooMany(n)
  THEN [buf |-> g.buf, argc |-> n, argv |-> av, toomany |-> TRUE]
  ELSE TokLoop(g.buf, ScanArg(g.buf, g.p), n + 1, StoreArg(av, n, g.p))

\* runcmd up to the lookup: argc = 0, argv[argc] = 0, the loop, and the
\* closing argv[argc] = 0 when the loop is left by break
Tokenize(b) ==
  LET t == TokLoop(b, 1, 0, StoreArg(ArgvFresh, 0, 0)) IN
  IF t.toomany THEN t ELSE [t EXCEPT !.argv = StoreArg(t.argv, t.argc, 0)]

\* Lookup leaving its loop on the last entry when no name is equal
RECURSIVE Lookup_FallsToLast(_, _)
Lookup_FallsToLast(s, i) ==
  IF i > NCOMMANDS THEN NCOMMANDS
  ELSE IF s = commands[i].name THEN i
  ELSE Lookup_FallsToLast(s, i + 1)

\* the index in commands[] of the first entry whose name strcmp finds equal
\* to s from entry i on, 0 when there is none
RECURSIVE Lookup(_, _)
Lookup(s, i) ==
  IF i > NCOMMANDS THEN 0
  ELSE IF s = commands[i].name THEN i
  ELSE Lookup(s, i + 1)

-----------------------------------------------------------------------------
(* The externals the monitor calls *)

\* the value of a hexadecimal digit, 16 for any other character
HexVal(c) ==
  CASE c = "0" -> 0 [] c = "1" -> 1 [] c = "2" -> 2 [] c = "3" -> 3
    [] c = "4" -> 4 [] c = "5" -> 5 [] c = "6" -> 6 [] c = "7" -> 7
    [] c = "8" -> 8 [] c = "9" -> 9
    [] c \in {"a", "A"} -> 10 [] c \in {"b", "B"} -> 11
    [] c \in {"c", "C"} -> 12 [] c \in {"d", "D"} -> 13
    [] c \in {"e", "E"} -> 14 [] c \in {"f", "F"} -> 15
    [] OTHER -> 16

\* the digits of strtol: the value of the longest prefix of hexadecimal
\* digits of s from position i on, continuing from val
RECURSIVE HexDigits(_, _, _)
HexDigits(s, i, val) ==
  IF i > Len(s) \/ HexVal(s[i]) >= 16 THEN val
  ELSE HexDigits(s, i + 1, W((val.hi * 16 + val.lo \div 256) % HI,
                             (val.lo % 256) * 16 + HexVal(s[i])))

\* (uintptr_t) strtol(s, &ptr, 16): a hexadecimal address, leading 0x optional
strtol16(s) ==
  LET i == IF Len(s) >= 2 /\ s[1] = "0" /\ s[2] = "x" THEN 3 ELSE 1
  IN HexDigits(s, i, W0)

\* a pte_t* that points at no entry
NULLPTE == -1

\* pgdir_walk(pgdir, va, create) with the create flag clear: a handle on the
\* leaf entry of va (its page number), none when va has no page table
pgdir_walk(pgdir, va, create) ==
  IF PDX(va) \in pgdir THEN PGNUM(va) ELSE NULLPTE

\* *entry
ReadPTE(pt, h) == IF h \in DOMAIN pt THEN pt[h] ELSE W0

\* WritePTE storing v in every entry of the table
WritePTE_WholeTable(pt, h, v) == [g \in DOMAIN pt \cup {h} |-> v]

\* *entry = v
WritePTE(pt, h, v) ==
  IF h \in DOMAIN pt THEN [pt EXCEPT ![h] = v]
  ELSE [g \in DOMAIN pt \cup {h} |-> IF g = h THEN v ELSE pt[g]]

\* the link symbols kerninfo reports
KERNBASE == W(983040, 0)
sym_start == W(256, 12)
sym_entry == W(983296, 0)
sym_etext == W(983300, 0)
sym_edata == W(983314, 0)
sym_end == W(983328, 0)

\* a word below 2^31 as an int
WToInt(a) == a.hi * LO + a.lo

\* ROUNDUP(a, n)
ROUNDUP(a, n) == ((a + n - 1) \div n) * n

-----------------------------------------------------------------------------
(* Console output: one record per cprintf call *)

Msg(f, a) == [fmt |-> f, args |-> a]

FMT_HELP == "%s - %s\n"
FMT_USAGE_SHOW == "Usage: showmappings BEGIN_ADDR END_ADDR\n"
FMT_INVALID == "Invalid address input.\n"
FMT_MAPPING == "Virtual address: 0x%x, physical address: 0x%x\n  PTE_P: %d, PTE_W: %d, PTE_U: %d\n"
FMT_NOENTRY == "0x%x: page table entry doesn't exist.\n"
FMT_USAGE_SET == "Usage: setpermission ADDR [s|c] [p|w|u]\n"
FMT_BEFORE == "Before setting:\n"
FMT_AFTER == "After setting:\n"
FMT_TOOMANY == "Too many arguments (max %d)\n"
FMT_UNKNOWN == "Unknown command '%s'\n"
FMT_BACKTRACE == "Stack backtrace:\n"
FMT_FRAME == "  ebp %08x eip %08x args %08x %08x %08x %08x %08x\n"
FMT_DEBUGINFO == "  \t\t%s:%d %.*s+%d\n"
FMT_PANIC == "pgdir_walk out of memory.\n"

\* (w & bit) ? 1 : 0
Flag(w, bit) == IF BitAnd(w, WInt(bit)) # W0 THEN 1 ELSE 0

\* what showmappings and setpermission print for the entry word w of addr
PrintEntry(addr, w) ==
  IF BitAnd(w, WInt(PTE_P)) # W0
  THEN Msg(FMT_MAPPING, <<addr, PTE_ADDR(w),
                          Flag(w, PTE_P), Flag(w, PTE_W), Flag(w, PTE_U)>>)
  ELSE Msg(FMT_NOENTRY, <<addr>>)

-----------------------------------------------------------------------------
(* The lines readline can return *)

\* the tokens of toks from the i-th on, each preceded by the separator sep
RECURSIVE JoinFrom(_, _, _)
JoinFrom(toks, i, sep) ==
  IF i > Len(toks) THEN <<>> ELSE sep \o toks[i] \o JoinFrom(toks, i + 1, sep)

\* the tokens of toks separated by single spaces
Join(toks) ==
  IF toks = <<>> THEN <<>> ELSE toks[1] \o JoinFrom(toks, 2, <<" ">>)

\* the tokens of toks, each after a tab and a space, with a closing newline
JoinPadded(toks) == JoinFrom(toks, 1, <<"\t", " ">>) \o <<"\r", "\n">>

setpermission_name == <<"s", "e", "t", "p", "e", "r", "m", "i", "s", "s", "i", "o", "n">>
zzz_name == <<"z", "z", "z">>
Help_name == <<"H", "e", "l", "p">>

\* the address tokens given to showmappings as BEGIN
BeginTokens == <<<<"0", "x", "1", "0", "0", "0">>, <<"1", "8", "0", "0">>, <<"f", "f", "f", "f", "f", "0", "0", "0">>, <<"0", "x", "A">>>>
\* the address tokens given to showmappings as END
EndTokens == <<<<"0", "x", "3", "0", "0", "0">>, <<"0", "x", "2", "4", "0", "0">>, <<"f", "f", "f", "f", "f", "0", "0", "0">>, <<"0", "x", "5">>>>
\* the address tokens given to setpermission
AddrTokens == <<<<"0", "x", "2", "0", "0", "0">>, <<"f", "f", "f", "f", "f", "0", "0", "0">>>>
\* the direction tokens given to setpermission
DirTokens == <<<<"s">>, <<"c">>, <<"x">>>>
\* the bit-selector tokens given to setpermission
PermTokens == <<<<"p">>, <<"w">>, <<"u">>, <<"z">>>>

\* k tokens, each the single character a
ArgTokens(k) == [i \in 1 .. k |-> <<"a">>]

\* the numbers of tokens of the lines with tabs, spaces and a line end
PaddedCounts == <<0, 1, 3, MAXARGS - 1, MAXARGS>>

\* the lines readline can return, numbered
Lines ==
  [k \in 1 .. MaxTokens + 1 |-> Join(ArgTokens(k - 1))]
  \o [i \in 1 .. Len(PaddedCounts) |-> JoinPadded(ArgTokens(PaddedCounts[i]))]
  \o << <<" ", " ", "a", " ", " ", "b", "\t", "c", "\n">>,
        <<" ", "\t", "\r", "\n">>,
        Join(<<help_name>>), JoinPadded(<<help_name, <<"a">>, <<"b">>>>),
        Join(<<help_name>> \o ArgTokens(MAXARGS - 2)),
        Join(<<help_name>> \o ArgTokens(MAXARGS - 1)),
        Join(<<Help_name>>), Join(<<zzz_name, <<"x">>, <<"y">>>>),
        Join(<<kerninfo_name>>), Join(<<backtrace_name>>),
        Join(<<showmappings_name>>),
        Join(<<showmappings_name, <<"0", "x", "1", "0", "0", "0">>>>),
        Join(<<showmappings_name, <<"0", "x", "1", "0", "0", "0">>, <<"0", "x", "3", "0", "0", "0">>, <<"x">>>>),
        Join(<<setpremission_name, <<"0", "x", "2", "0", "0", "0">>, <<"s">>>>),
        Join(<<setpremission_name, <<"0", "x", "2", "0", "0", "0">>, <<"s">>, <<"u">>, <<"x">>>>),
        Join(<<setpermission_name, <<"0", "x", "2", "0", "0", "0">>, <<"s">>, <<"u">>>>) >>
  \o [i \in 1 .. Len(BeginTokens) * Len(EndTokens) |->
        Join(<<showmappings_name,
               BeginTokens[(i - 1) \div Len(EndTokens) + 1],
               EndTokens[((i - 1) % Len(EndTokens)) + 1]>>)]
  \o [i \in 1 .. Len(AddrTokens) * Len(DirTokens) * Len(PermTokens) |->
        Join(<<setpremission_name,
               AddrTokens[(i - 1) \div (Len(DirTokens) * Len(PermTokens)) + 1],
               DirTokens[(((i - 1) \div Len(PermTokens)) % Len(DirTokens)) + 1],
               PermTokens[((i - 1) % Len(PermTokens)) + 1]>>)]

\* the numbers of the lines
LineNos == 1 .. Len(Lines)

\* the line buffer readline returns for line l
LineBuf(l) == l \o <<NUL>>

\* runcmd's tokenization of every line
Tok == [n \in LineNos |-> Tokenize(LineBuf(Lines[n]))]

\* the i-th argument of a tokenized line, as a string
Arg(t, i) == CStr(t.buf, t.argv[i])

\* the commands[] index runcmd's lookup finds for every line, 0 for none
Cmd == [n \in LineNos |->
          IF Tok[n].toomany \/ Tok[n].argc = 0 THEN 0
          ELSE Lookup(Arg(Tok[n], 0), 1)]

\* the function runcmd calls for every line, "" for none
Func == [n \in LineNos |-> IF Cmd[n] = 0 THEN "" ELSE commands[Cmd[n]].func]

-----------------------------------------------------------------------------
(* The stack backtrace walks *)

\* the frame pointer of the k-th frame of a chain, the current one first
FrameEbp(k) == W(983311, 3840 + 32 * k)

\* the return address stored in the k-th frame
FrameEip(k) == W(983296, 64 * k)

\* stack memory holding a chain of n frames, the last with a saved ebp of 0
StackMem(n) ==
  [a \in {WAdd(FrameEbp(k), 4 * j) : k \in 1 .. n, j \in 0 .. 6} |->
     LET k == (a.lo - FrameEbp(1).lo) \div 32 + 1
         j == ((a.lo - FrameEbp(1).lo) % 32) \div 4
     IN IF j = 0 THEN (IF k = n THEN W0 ELSE FrameEbp(k + 1))
        ELSE IF j = 1 THEN FrameEip(k)
        ELSE WInt(16 * k + j)]

\* the stacks mon_backtrace can be called on: read_ebp(), the memory, and
\* the return addresses debuginfo_eip knows
Stacks ==
  {[ebp |-> FrameEbp(1), mem |-> StackMem(n), known |-> kn] :
     n \in 1 .. MaxFrames, kn \in SUBSET {FrameEip(k) : k \in 1 .. 2}}

NoStack == [ebp |-> W0, mem |-> <<>>, known |-> {}]

\* what debuginfo_eip stores in info for an address it knows
DebugInfo(eip) ==
  [eip_file |-> "kern/init.c", eip_line |-> eip.lo \div 64,
   eip_fn_name |-> "test_backtrace", eip_fn_namelen |-> 14,
   eip_fn_addr |-> WSub(eip, WInt(8))]

\* BacktraceLoop_StopsOnMiss leaving the loop when debuginfo_eip fails
RECURSIVE BacktraceLoop_StopsOnMiss(_, _)
BacktraceLoop_StopsOnMiss(st, ebp) ==
  IF ebp = W0 THEN <<>>
  ELSE LET m == st.mem
           eip == m[WAdd(ebp, 4)]
           info == DebugInfo(eip)
       IN <<Msg(FMT_FRAME, <<ebp, m[WAdd(ebp, 4)], m[WAdd(ebp, 8)],
                             m[WAdd(ebp, 12)], m[WAdd(ebp, 16)],
                             m[WAdd(ebp, 20)], m[WAdd(ebp, 24)]>>)>>
          \o (IF eip \in st.known
              THEN <<Msg(FMT_DEBUGINFO,
                         <<info.eip_file, info.eip_line, info.eip_fn_namelen,
                           info.eip_fn_name, WSub(eip, info.eip_fn_addr)>>)>>
              ELSE <<>>)
          \o (IF eip \in st.known
              THEN BacktraceLoop_StopsOnMiss(st, m[ebp])
              ELSE <<>>)

\* the while (ebp != 0) loop of mon_backtrace: the lines it prints
RECURSIVE BacktraceLoop(_, _)
BacktraceLoop(st, ebp) ==
  IF ebp = W0 THEN <<>>
  ELSE LET m == st.mem
           eip == m[WAdd(ebp, 4)]
           info == DebugInfo(eip)
       IN <<Msg(FMT_FRAME, <<ebp, m[WAdd(ebp, 4)], m[WAdd(ebp, 8)],
                             m[WAdd(ebp, 12)], m[WAdd(ebp, 16)],
                             m[WAdd(ebp, 20)], m[WAdd(ebp, 24)]>>)>>
          \o (IF eip \in st.known
              THEN <<Msg(FMT_DEBUGINFO,
                         <<info.eip_file, info.eip_line, info.eip_fn_namelen,
                           info.eip_fn_name, WSub(eip, info.eip_fn_addr)>>)>>
              ELSE <<>>)
          \o BacktraceLoop(st, m[ebp])

-----------------------------------------------------------------------------
(* The state monitor() starts its loop in *)

RtNone == [stage |-> 0, page |-> 0, bit |-> 0, orig |-> W0]

\* the paging structures the monitor can find: a page table for the lowest
\* 4MB only, with a present entry for page 2 (0x2000); or page tables for the
\* lowest and the topmost 4MB, with an entry for page 2 that is not present
\* and a present entry for the topmost page
InitPaging ==
  {[pgdir |-> {0},
    ptab |-> [pg \in {2, 1048575} |-> IF pg = 2 THEN W(5, 35) ELSE W0]],
   [pgdir |-> {0, 1023},
    ptab |-> [pg \in {2, 1048575} |->
                IF pg = 2 THEN W(7, 100) ELSE W(2748, 99)]]}

Init ==
  /\ pc = "prompt"
  /\ \E pg \in InitPaging : kern_pgdir = pg.pgdir /\ ptab = pg.ptab
  /\ stack = NoStack
  /\ line = NULLLINE
  /\ buf = <<NUL>>
  /\ argc = 0
  /\ argv = ArgvFresh
  /\ handler = 0
  /\ ret = 0
  /\ out = <<>>
  /\ walks = <<>>
  /\ begin = W0
  /\ end = W0
  /\ rt = RtNone

-----------------------------------------------------------------------------
(* monitor() and runcmd *)

\* MonitorBreaks written as <= 0
MonitorBreaks_OnZero(r) == r <= 0

\* the test of monitor() on runcmd's result that leaves the loop
MonitorBreaks(r) == r < 0

\* runcmd returns r to monitor(), which breaks or prompts again
Return(r) ==
  /\ ret' = r
  /\ pc' = IF MonitorBreaks(r) THEN "exited" ELSE "prompt"

\* readline returned l and runcmd tokenized it
Tokenized(l) ==
  /\ pc = "prompt"
  /\ line' = Lines[l]
  /\ buf' = Tok[l].buf
  /\ argc' = Tok[l].argc
  /\ argv' = Tok[l].argv

\* runcmd's lookup found the handler named f for line l
Dispatched(l, f) ==
  /\ Func[l] = f
  /\ Tokenized(l)
  /\ handler' = Cmd[l]

\* readline returned NULL: runcmd is not called
ReadNull ==
  /\ pc = "prompt"
  /\ line' = NULLLINE
  /\ buf' = <<NUL>>
  /\ argc' = 0
  /\ argv' = ArgvFresh
  /\ handler' = 0
  /\ ret' = 0
  /\ out' = <<>>
  /\ walks' = <<>>
  /\ stack' = NoStack
  /\ rt' = RtNone
  /\ begin' = W0
  /\ end' = W0
  /\ UNCHANGED <<pc, kern_pgdir, ptab>>

\* runcmd on a line with too many arguments
RunTooMany(l) ==
  /\ Tok[l].toomany
  /\ Tokenized(l)
  /\ out' = <<Msg(FMT_TOOMANY, <<MAXARGS>>)>>
  /\ handler' = 0
  /\ Return(0)
  /\ walks' = <<>>
  /\ stack' = NoStack
  /\ rt' = RtNone
  /\ begin' = W0
  /\ end' = W0
  /\ UNCHANGED <<kern_pgdir, ptab>>

\* runcmd on a line without arguments
RunEmpty(l) ==
  /\ ~Tok[l].toomany
  /\ Tok[l].argc = 0
  /\ Tokenized(l)
  /\ out' = <<>>
  /\ handler' = 0
  /\ Return(0)
  /\ walks' = <<>>
  /\ stack' = NoStack
  /\ rt' = RtNone
  /\ begin' = W0
  /\ end' = W0
  /\ UNCHANGED <<kern_pgdir, ptab>>

\* runcmd on a line whose argv[0] is no command name
RunUnknown(l) ==
  /\ ~Tok[l].toomany
  /\ Tok[l].argc # 0
  /\ Cmd[l] = 0
  /\ Tokenized(l)
  /\ out' = <<Msg(FMT_UNKNOWN, <<Arg(Tok[l], 0)>>)>>
  /\ handler' = 0
  /\ Return(0)
  /\ walks' = <<>>
  /\ stack' = NoStack
  /\ rt' = RtNone
  /\ begin' = W0
  /\ end' = W0
  /\ UNCHANGED <<kern_pgdir, ptab>>

-----------------------------------------------------------------------------
(* help, kerninfo, backtrace *)

MonHelp(l) ==
  /\ Dispatched(l, "mon_help")
  /\ out' = [i \in 1 .. NCOMMANDS |->
               Msg(FMT_HELP, <<commands[i].name, commands[i].desc>>)]
  /\ Return(0)
  /\ walks' = <<>>
  /\ stack' = NoStack
  /\ rt' = RtNone
  /\ begin' = W0
  /\ end' = W0
  /\ UNCHANGED <<kern_pgdir, ptab>>

MonKerninfo(l) ==
  /\ Dispatched(l, "mon_kerninfo")
  /\ out' = << Msg("Special kernel symbols:\n", <<>>),
               Msg("  _start                  %08x (phys)\n", <<sym_start>>),
               Msg("  entry  %08x (virt)  %08x (phys)\n",
                   <<sym_entry, WSub(sym_entry, KERNBASE)>>),
               Msg("  etext  %08x (virt)  %08x (phys)\n",
                   <<sym_etext, WSub(sym_etext, KERNBASE)>>),
               Msg("  edata  %08x (virt)  %08x (phys)\n",
                   <<sym_edata, WSub(sym_edata, KERNBASE)>>),
               Msg("  end    %08x (virt)  %08x (phys)\n",
                   <<sym_end, WSub(sym_end, KERNBASE)>>),
               Msg("Kernel executable memory footprint: %dKB\n",
                   <<ROUNDUP(WToInt(WSub(sym_end, sym_entry)), 1024) \div 1024>>) >>
  /\ Return(0)
  /\ walks' = <<>>
  /\ stack' = NoStack
  /\ rt' = RtNone
  /\ begin' = W0
  /\ end' = W0
  /\ UNCHANGED <<kern_pgdir, ptab>>

MonBacktrace(l) ==
  /\ Dispatched(l, "mon_backtrace")
  /\ \E st \in Stacks :
       /\ stack' = st
       /\ out' = <<Msg(FMT_BACKTRACE, <<>>)>> \o BacktraceLoop(st, st.ebp)
  /\ Return(0)
  /\ walks' = <<>>
  /\ rt' = RtNone
  /\ begin' = W0
  /\ end' = W0
  /\ UNCHANGED <<kern_pgdir, ptab>>

-----------------------------------------------------------------------------
(* showmappings *)

\* ShowArgc letting more arguments through
ShowArgc_AtLeast(n) == n >= 3

\* the argc that mon_showmapping goes ahead with
ShowArgc(n) == n = 3

\* mon_showmapping up to its loop: the argc test, the two strtol calls and
\* the test of the addresses, which prints and does not return
MonShowmapping(l) ==
  /\ Dispatched(l, "mon_showmapping")
  /\ walks' = <<>>
  /\ stack' = NoStack
  /\ rt' = RtNone
  /\ UNCHANGED <<kern_pgdir, ptab>>
  /\ IF ~ShowArgc(Tok[l].argc)
     THEN /\ out' = <<Msg(FMT_USAGE_SHOW, <<>>)>>
          /\ Return(0)
          /\ begin' = W0
          /\ end' = W0
     ELSE LET b == strtol16(Arg(Tok[l], 1))
              e == strtol16(Arg(Tok[l], 2))
          IN /\ begin' = b
             /\ end' = e
             /\ out' = IF WLt(e, b) THEN <<Msg(FMT_INVALID, <<>>)>> ELSE <<>>
             /\ pc' = "showmapping"
             /\ ret' = 0

\* LoopCond written as begin != end
LoopCond_NotEqual(b, e) == b # e

\* while (begin <= end)
LoopCond(b, e) == WLe(b, e)

\* NextAddr stepping to the start of the next page
NextAddr_Aligned(b) == W((b.hi + 1) % HI, 0)

\* begin += PGSIZE on a uintptr_t
NextAddr(b) == WAdd(b, PGSIZE)

\* one iteration of the loop on an address that has a page table
ShowmappingVisit ==
  /\ pc = "showmapping"
  /\ LoopCond(begin, end)
  /\ Len(walks) < MaxVisits
  /\ LET entry == pgdir_walk(kern_pgdir, begin, 0) IN
       /\ entry # NULLPTE
       /\ out' = Append(out, PrintEntry(begin, ReadPTE(ptab, entry)))
  /\ walks' = Append(walks, <<begin, 0>>)
  /\ begin' = NextAddr(begin)
  /\ UNCHANGED <<pc, kern_pgdir, ptab, stack, line, buf, argc, argv, handler,
                 ret, end, rt>>

\* one iteration of the loop on an address that has no page table: panic
ShowmappingPanic ==
  /\ pc = "showmapping"
  /\ LoopCond(begin, end)
  /\ Len(walks) < MaxVisits
  /\ pgdir_walk(kern_pgdir, begin, 0) = NULLPTE
  /\ out' = Append(out, Msg(FMT_PANIC, <<>>))
  /\ walks' = Append(walks, <<begin, 0>>)
  /\ pc' = "panic"
  /\ UNCHANGED <<kern_pgdir, ptab, stack, line, buf, argc, argv, handler,
                 ret, begin, end, rt>>

\* the loop is over: return 0
ShowmappingReturn ==
  /\ pc = "showmapping"
  /\ ~LoopCond(begin, end)
  /\ Return(0)
  /\ UNCHANGED <<kern_pgdir, ptab, stack, line, buf, argc, argv, handler,
                 out, walks, begin, end, rt>>

-----------------------------------------------------------------------------
(* setpermission *)

\* the argc that mon_setpermission goes ahead with
SetArgc(n) == n = 4

\* PermMask with the masks of w and u exchanged
PermMask_Swapped(perm) ==
  CASE perm = "p" -> PTE_P
    [] perm = "w" -> PTE_U
    [] perm = "u" -> PTE_W
    [] OTHER -> 0

\* switch (perm): the mask p of the selected bit
PermMask(perm) ==
  CASE perm = "p" -> PTE_P
    [] perm = "w" -> PTE_W
    [] perm = "u" -> PTE_U
    [] OTHER -> 0

\* ApplyDir with c written as *entry & p
ApplyDir_NoComplement(set, w, p) ==
  CASE set = "s" -> BitOr(w, WInt(p))
    [] set = "c" -> BitAnd(w, WInt(p))
    [] OTHER -> w

\* switch (set): the entry word after the assignment to *entry
ApplyDir(set, w, p) ==
  CASE set = "s" -> BitOr(w, WInt(p))
    [] set = "c" -> BitAnd(w, BitNot(WInt(p)))
    [] OTHER -> w

\* the value of the bit number i of a word
BitOf(w, i) == IF i < 12 THEN (w.lo \div 2^i) % 2 ELSE (w.hi \div 2^(i - 12)) % 2

\* the number of the entry bit a selector character names, -1 for none
SelectedBit(perm) ==
  CASE perm = "p" -> 0 [] perm = "w" -> 1 [] perm = "u" -> 2 [] OTHER -> -1

\* what the set-then-clear record becomes by a run with direction set and
\* the selector of bit number b on entry h, whose word was w
RtStep(set, h, w, b) ==
  LET p == IF b < 0 THEN 0 ELSE 2^b IN
  IF set = "s" /\ b >= 0 /\ BitOf(w, b) = 0
  THEN [stage |-> 1, page |-> h, bit |-> p, orig |-> w]
  ELSE IF set = "c" /\ rt.stage = 1 /\ rt.page = h /\ rt.bit = p
  THEN [rt EXCEPT !.stage = 2]
  ELSE RtNone

\* mon_setpermission on an address that has a page table
MonSetpermission(l) ==
  /\ Dispatched(l, "mon_setpermission")
  /\ stack' = NoStack
  /\ begin' = W0
  /\ end' = W0
  /\ UNCHANGED kern_pgdir
  /\ Return(0)
  /\ IF ~SetArgc(Tok[l].argc)
     THEN /\ out' = <<Msg(FMT_USAGE_SET, <<>>)>>
          /\ walks' = <<>>
          /\ rt' = RtNone
          /\ UNCHANGED ptab
     ELSE LET addr == strtol16(Arg(Tok[l], 1))
              set == Arg(Tok[l], 2)[1]
              perm == Arg(Tok[l], 3)[1]
              entry == pgdir_walk(kern_pgdir, addr, 0)
              w == ReadPTE(ptab, entry)
              p == PermMask(perm)
              w2 == ApplyDir(set, w, p)
          IN /\ entry # NULLPTE
             /\ walks' = << <<addr, 0>> >>
             /\ ptab' = IF set \in {"s", "c"} THEN WritePTE(ptab, entry, w2)
                        ELSE ptab
             /\ out' = <<Msg(FMT_BEFORE, <<>>), PrintEntry(addr, w),
                         Msg(FMT_AFTER, <<>>), PrintEntry(addr, w2)>>
             /\ rt' = RtStep(set, entry, w, SelectedBit(perm))

\* the words a read through a null pointer can yield
Garbage == {W0, W(1, 7)}

\* mon_setpermission on an address that has no page table: entry is null and
\* *entry is undefined; the kernel faults, or it reads and writes the word
\* at address 0, which is no page-table entry
MonSetpermissionNull(l) ==
  /\ Dispatched(l, "mon_setpermission")
  /\ SetArgc(Tok[l].argc)
  /\ LET addr == strtol16(Arg(Tok[l], 1))
         set == Arg(Tok[l], 2)[1]
         perm == Arg(Tok[l], 3)[1]
     IN /\ pgdir_walk(kern_pgdir, addr, 0) = NULLPTE
        /\ walks' = << <<addr, 0>> >>
        /\ \/ /\ pc' = "fault"
              /\ ret' = 0
              /\ out' = <<Msg(FMT_BEFORE, <<>>)>>
           \/ \E g \in Garbage :
                /\ out' = <<Msg(FMT_BEFORE, <<>>), PrintEntry(addr, g),
                            Msg(FMT_AFTER, <<>>),
                            PrintEntry(addr, ApplyDir(set, g, PermMask(perm)))>>
                /\ Return(0)
  /\ stack' = NoStack
  /\ rt' = RtNone
  /\ begin' = W0
  /\ end' = W0
  /\ UNCHANGED <<kern_pgdir, ptab>>

-----------------------------------------------------------------------------

Next ==
  \/ ReadNull
  \/ \E l \in LineNos : RunTooMany(l)
  \/ \E l \in LineNos : RunEmpty(l)
  \/ \E l \in LineNos : RunUnknown(l)
  \/ \E l \in LineNos : MonHelp(l)
  \/ \E l \in LineNos : MonKerninfo(l)
  \/ \E l \in LineNos : MonBacktrace(l)
  \/ \E l \in LineNos : MonShowmapping(l)
  \/ ShowmappingVisit
  \/ ShowmappingPanic
  \/ ShowmappingReturn
  \/ \E l \in LineNos : MonSetpermission(l)
  \/ \E l \in LineNos : MonSetpermissionNull(l)

Spec == Init /\ [][Next]_vars

-----------------------------------------------------------------------------
(* What the last command was, read from the state *)

\* the function the last runcmd called, "" for none
LastFunc == IF handler = 0 THEN "" ELSE commands[handler].func

\* the i-th argument of the last command, as a string
ArgStr(i) == CStr(buf, argv[i])

\* the last command was showmappings with two arguments
InShowmapping == LastFunc = "mon_showmapping" /\ argc = 3

\* the addresses the last showmappings command was given
ShowBegin == strtol16(ArgStr(1))
ShowEnd == strtol16(ArgStr(2))

\* the pages the accessor was queried for by the current command
WalkedPages == {PGNUM(walks[i][1]) : i \in 1 .. Len(walks)}

\* the positions in a line where a token starts
TokenStarts(l) ==
  {i \in 1 .. Len(l) : ~IsSpace(l[i]) /\ (i = 1 \/ IsSpace(l[i - 1]))}

\* the number of whitespace-separated tokens of a line
NTokens(l) == Cardinality(TokenStarts(l))

\* the position where the j-th token of a line starts, j counted from 0
TokenStart(l, j) ==
  CHOOSE i \in TokenStarts(l) :
    Cardinality({h \in TokenStarts(l) : h < i}) = j

-----------------------------------------------------------------------------
(* C1 *)

\* C1: one run of mon_setpermission with argc = 4 leaves every bit of the
\* addressed entry as it was, except at most the one bit that p, w or u
\* selects; with another selector, or a direction other than s and c, the
\* entry word is unchanged.
C1_SetpermissionFrame ==
  [][(pc = "prompt" /\ handler' # 0
      /\ commands[handler'].func = "mon_setpermission" /\ argc' = 4)
     => \A addr \in {strtol16(CStr(buf', argv'[1]))} :
        \A set \in {buf'[argv'[2]]} :
        \A sel \in {SelectedBit(buf'[argv'[3]])} :
        \A old \in {ReadPTE(ptab, PGNUM(addr))} :
        \A new \in {ReadPTE(ptab', PGNUM(addr))} :
           /\ \A i \in 0 .. 31 : BitOf(old, i) # BitOf(new, i) => i = sel
           /\ (sel < 0 \/ set \notin {"s", "c"}) => new = old
    ]_vars

\* a run of setpermission has printed an entry with PTE_U: 0 before and the
\* same entry with PTE_U: 1 after
C1_Witness ==
  /\ LastFunc = "mon_setpermission" /\ argc = 4
  /\ Len(out) = 4
  /\ out[2].fmt = FMT_MAPPING /\ out[4].fmt = FMT_MAPPING
  /\ out[2].args[5] = 0 /\ out[4].args[5] = 1
  /\ out[2].args[2] = out[4].args[2]

-----------------------------------------------------------------------------
(* C2 *)

\* C2: when an entry has bit B of P, W, U clear, setpermission s with the
\* selector of B sets B and only B, and a following setpermission c with
\* the same selector on the same address restores the original word,
\* whether or not the entry is present.
C2_RoundTrip ==
  /\ rt.stage = 1 => ReadPTE(ptab, rt.page) = WAdd(rt.orig, rt.bit)
  /\ rt.stage = 2 => ReadPTE(ptab, rt.page) = rt.orig

\* a set and a clear of W have been run on an entry that is not present
C2_Witness ==
  /\ rt.stage = 2
  /\ rt.bit = PTE_W
  /\ BitOf(rt.orig, 0) = 0
  /\ LastFunc = "mon_setpermission"

-----------------------------------------------------------------------------
(* C3 *)

\* C3: a line whose first token is exactly setpermission is dispatched to
\* the permission editor and is not answered with the unknown-command
\* message.
C3_SetpermissionDispatched ==
  (pc = "prompt" /\ line # NULLLINE /\ argc >= 1
   /\ ArgStr(0) = setpermission_name)
  => /\ LastFunc = "mon_setpermission"
     /\ \A i \in 1 .. Len(out) : out[i].fmt # FMT_UNKNOWN

-----------------------------------------------------------------------------
(* C4 *)

\* the tokenization of the buffer repeats the one that runcmd did
SameTokens(t) ==
  t.argc = argc /\ \A i \in 0 .. argc - 1 : t.argv[i] = argv[i]

\* C4 as claimed: tokenizing the buffer that runcmd has tokenized yields the
\* same argc and the same argv pointers again.
C4_TokenizerIdempotent ==
  line # NULLLINE => SameTokens(Tokenize(buf))

\* C4 as amended: tokenizing the buffer that runcmd has tokenized stops at
\* the first terminator runcmd wrote: it yields argc = 0 when the line is
\* empty or starts with whitespace, and else argc = 1 with the argv[0] of
\* the first tokenization; it repeats the first tokenization exactly when
\* that found no token, or one token that starts at the first byte.
C4_RetokenizeFirstToken ==
  line # NULLLINE =>
    \A t \in {Tokenize(buf)} :
      /\ ~t.toomany
      /\ t.argc = IF line # <<>> /\ ~IsSpace(line[1]) THEN 1 ELSE 0
      /\ t.argc = 1 => t.argv[0] = 1 /\ argv[0] = 1
      /\ SameTokens(t) <=> (argc = 0 \/ (argc = 1 /\ argv[0] = 1))

\* the line "  a  b\tc\n" has been tokenized into 3 arguments, and its
\* buffer now tokenizes into none
C4_Witness ==
  /\ line = <<" ", " ", "a", " ", " ", "b", "\t", "c", "\n">>
  /\ argc = 3
  /\ ArgStr(0) = <<"a">> /\ ArgStr(1) = <<"b">> /\ ArgStr(2) = <<"c">>
  /\ Tokenize(buf).argc = 0

-----------------------------------------------------------------------------
(* C5 *)

\* C5: a line of k tokens with k <= 15 gives argc = k with the tokens in
\* line order, and the lookup goes ahead; a line with k >= 16 gives the
\* Too many arguments (max 16) message, no handler, and the next prompt.
C5_TokenCount ==
  line # NULLLINE =>
    \A k \in {NTokens(line)} :
      /\ k <= 15 =>
           /\ argc = k
           /\ \A j \in 0 .. k - 1 : argv[j] = TokenStart(line, j)
           /\ \A i \in 1 .. Len(out) : out[i].fmt # FMT_TOOMANY
           /\ k >= 1 => (handler # 0 \/ out = <<Msg(FMT_UNKNOWN, <<ArgStr(0)>>)>>)
      /\ k >= 16 =>
           /\ out = <<Msg(FMT_TOOMANY, <<16>>)>>
           /\ handler = 0
           /\ pc = "prompt"
           /\ ret = 0

\* a line of 16 tokens has been answered with the message
C5_Witness ==
  /\ line # NULLLINE
  /\ NTokens(line) = 16
  /\ pc = "prompt"
  /\ Len(out) = 1 /\ out[1].fmt = FMT_TOOMANY

-----------------------------------------------------------------------------
(* C6 *)

\* C6: showmappings with argc = 3 and begin > end prints the invalid-address
\* message, calls the page-table accessor not once, and returns 0.
C6_InvalidRange ==
  (InShowmapping /\ WLt(ShowEnd, ShowBegin))
  => /\ out = <<Msg(FMT_INVALID, <<>>)>>
     /\ walks = <<>>
     /\ pc \in {"showmapping", "prompt"}
     /\ ret = 0

\* showmappings 0xA 0x5 has returned to the prompt
C6_Witness ==
  /\ InShowmapping
  /\ ShowBegin = WInt(10) /\ ShowEnd = WInt(5)
  /\ pc = "prompt"
  /\ out = <<Msg(FMT_INVALID, <<>>)>>

-----------------------------------------------------------------------------
(* C7 *)

\* C7: showmappings takes a none from the accessor with the create flag
\* clear as "not mapped" and goes on; the kernel panics only when a walk
\* that had to allocate failed, never because an address has no page table.
C7_PanicOnlyOnAllocationFailure ==
  pc = "panic" => walks[Len(walks)][2] # 0

-----------------------------------------------------------------------------
(* C8 *)

\* C8 as claimed: for begin <= end with end not page-aligned, whatever the
\* alignment of begin, the pages showmappings has queried when it returns
\* include the page of end.
C8_LastPageCovered ==
  (InShowmapping /\ pc = "prompt" /\ WLe(ShowBegin, ShowEnd)
   /\ PGOFF(ShowEnd) # 0)
  => PGNUM(ShowEnd) \in WalkedPages

\* C8 as amended: for begin <= end with end not page-aligned, showmappings
\* never queries the page of end when the page offset of begin is greater
\* than that of end, and has queried it when it returns otherwise.
C8_LastPageCoveredByOffset ==
  (InShowmapping /\ WLe(ShowBegin, ShowEnd) /\ PGOFF(ShowEnd) # 0)
  => /\ PGOFF(ShowBegin) > PGOFF(ShowEnd)
          => PGNUM(ShowEnd) \notin WalkedPages
     /\ (pc = "prompt" /\ PGOFF(ShowBegin) <= PGOFF(ShowEnd))
          => PGNUM(ShowEnd) \in WalkedPages

\* showmappings 1800 0x2400 has returned without a query for page 2
C8_Witness ==
  /\ InShowmapping
  /\ pc = "prompt"
  /\ ShowBegin = W(1, 2048) /\ ShowEnd = W(2, 1024)
  /\ WalkedPages = {1}

-----------------------------------------------------------------------------
(* C9 *)

\* C9: for begin <= end, also with end in the topmost page, showmappings
\* visits begin, begin + PGSIZE, ... up to end: every address it visits lies
\* between begin and end and is above the one visited before, so it visits
\* finitely many and then returns 0.
C9_VisitsBeginToEnd ==
  (InShowmapping /\ WLe(ShowBegin, ShowEnd))
  => /\ \A i \in 1 .. Len(walks) :
          /\ WLe(ShowBegin, walks[i][1])
          /\ WLe(walks[i][1], ShowEnd)
          /\ i > 1 => WLt(walks[i - 1][1], walks[i][1])
     /\ pc = "prompt" => ret = 0

-----------------------------------------------------------------------------
(* C10 *)

\* C10: monitor() has left its loop if and only if a handler that runcmd
\* called returned a negative value; a null line, a line without tokens,
\* too many tokens, an unknown command and a handler result >= 0 lead to
\* the next prompt.
C10_ExitIffNegative ==
  [][pc' = "exited"
     <=> (pc' \in {"prompt", "exited"} /\ handler' # 0 /\ ret' < 0)]_vars

\* help has returned 0 and monitor() is at its prompt again
C10_Witness ==
  /\ LastFunc = "mon_help"
  /\ ret = 0
  /\ pc = "prompt"
  /\ Len(out) = NCOMMANDS

-----------------------------------------------------------------------------
(* C11 *)

\* the characters of line l from position i up to the next whitespace
RECURSIVE RawToken(_, _)
RawToken(l, i) ==
  IF i > Len(l) \/ IsSpace(l[i]) THEN <<>> ELSE <<l[i]>> \o RawToken(l, i + 1)

\* the first token of a line that has one
FirstToken(l) == RawToken(l, TokenStart(l, 0))

\* the names in commands[]
CommandNames == {commands[i].name : i \in 1 .. NCOMMANDS}

\* a step of monitor() that reads line l, and answers it with the
\* unknown-command message for its first token and nothing else: no handler,
\* no page-table access, and the next prompt
AnsweredUnknown(l) ==
  /\ out' = <<Msg(FMT_UNKNOWN, <<FirstToken(l)>>)>>
  /\ handler' = 0
  /\ walks' = <<>>
  /\ ptab' = ptab
  /\ pc' = "prompt"

\* C11 as claimed: every line whose first token is no command name is
\* answered with exactly Unknown command '<first token>', no handler runs,
\* and the loop goes on.
C11_UnknownCommand ==
  [][(pc = "prompt" /\ line' # NULLLINE)
     => \A k \in {NTokens(line')} :
          (k >= 1 /\ FirstToken(line') \notin CommandNames)
          => AnsweredUnknown(line')]_vars

\* C11 as amended: every line of at most 15 tokens whose first token is no
\* command name is answered with exactly Unknown command '<first token>',
\* no handler runs, and the loop goes on; with 16 tokens or more the line
\* gets the Too many arguments message instead.
C11_UnknownCommandUpTo15 ==
  [][(pc = "prompt" /\ line' # NULLLINE)
     => \A k \in {NTokens(line')} :
          (k >= 1 /\ FirstToken(line') \notin CommandNames)
          => IF k <= MAXARGS - 1 THEN AnsweredUnknown(line')
             ELSE /\ out' = <<Msg(FMT_TOOMANY, <<MAXARGS>>)>>
                  /\ handler' = 0
                  /\ ptab' = ptab
                  /\ pc' = "prompt"]_vars

\* zzz x y has been answered with Unknown command 'zzz'
C11_Witness ==
  /\ line = Join(<<zzz_name, <<"x">>, <<"y">>>>)
  /\ out = <<Msg(FMT_UNKNOWN, <<zzz_name>>)>>
  /\ handler = 0
  /\ pc = "prompt"

-----------------------------------------------------------------------------
(* C12 *)

\* C12: whenever a handler is invoked, argv has exactly argc entries that
\* are not null, 1 <= argc <= 15, and a null at argv[argc]; every entry
\* points into the line buffer, at the first byte of a token that ends in a
\* terminator; and no argv slot with an index of 16 or more is written.
C12_ArgvWellFormed ==
  handler # 0 =>
    /\ 1 <= argc /\ argc <= 15
    /\ DOMAIN argv = 0 .. MAXARGS - 1
    /\ argv[argc] = 0
    /\ \A i \in 0 .. argc - 1 :
         /\ argv[i] >= 1 /\ argv[i] < Len(buf)
         /\ buf[argv[i]] # NUL
         /\ argv[i] = 1 \/ buf[argv[i] - 1] = NUL
         /\ \A s \in {ArgStr(i)} :
              /\ \A c \in 1 .. Len(s) : ~IsSpace(s[c])
              /\ buf[argv[i] + Len(s)] = NUL
              /\ s = RawToken(line, argv[i])
         /\ i > 0 => argv[i - 1] < argv[i]

\* help has been invoked with 14 arguments after its name
C12_Witness ==
  /\ LastFunc = "mon_help"
  /\ argc = MAXARGS - 1
  /\ argv[MAXARGS - 1] = 0
  /\ argv[MAXARGS - 2] = Len(buf) - 1

-----------------------------------------------------------------------------
(* C13 *)

\* the frame pointers of the chain that starts at ebp, up to the saved
\* frame pointer that is zero
RECURSIVE Chain(_, _)
Chain(mem, ebp) == IF ebp = W0 THEN <<>> ELSE <<ebp>> \o Chain(mem, mem[ebp])

IsFrameLine(m) == m.fmt = FMT_FRAME
IsInfoLine(m) == m.fmt = FMT_DEBUGINFO

\* C13: on a frame-pointer chain that ends in a zero frame pointer,
\* backtrace prints exactly one raw frame line for every frame pointer of
\* the chain that is not zero, in chain order from the current one, and
\* returns 0; a failure of the resolver on a frame does not stop or shorten
\* the walk.
C13_BacktraceWalk ==
  LastFunc = "mon_backtrace" =>
    \A ch \in {Chain(stack.mem, stack.ebp)} :
    \A fr \in {SelectSeq(out, IsFrameLine)} :
      /\ out[1] = Msg(FMT_BACKTRACE, <<>>)
      /\ Len(fr) = Len(ch)
      /\ \A i \in 1 .. Len(ch) :
           /\ fr[i].args[1] = ch[i]
           /\ fr[i].args[2] = stack.mem[WAdd(ch[i], 4)]
      /\ Len(SelectSeq(out, IsInfoLine))
           = Cardinality({i \in 1 .. Len(ch) :
                            stack.mem[WAdd(ch[i], 4)] \in stack.known})
      /\ Len(out) = 1 + Len(fr) + Len(SelectSeq(out, IsInfoLine))
      /\ ret = 0
      /\ pc = "prompt"

\* backtrace has walked a chain of 3 frames of which the resolver knows
\* the first only
C13_Witness ==
  /\ LastFunc = "mon_backtrace"
  /\ Len(Chain(stack.mem, stack.ebp)) = 3
  /\ stack.known = {FrameEip(1)}
  /\ Len(SelectSeq(out, IsFrameLine)) = 3
  /\ Len(out) = 5
  /\ pc = "prompt"

-----------------------------------------------------------------------------
(* C14 *)

\* what the claim has showmappings print for addr when its entry word is w
ExpectedReport(addr, w) ==
  IF BitOf(w, 0) = 1
  THEN Msg(FMT_MAPPING, <<addr, W(w.hi, 0), 1, BitOf(w, 1), BitOf(w, 2)>>)
  ELSE Msg(FMT_NOENTRY, <<addr>>)

\* C14: for page-aligned begin <= end, showmappings prints exactly one
\* report for each of begin, begin + PGSIZE, ..., end, in ascending order:
\* the mapping line with the P, W, U values and the frame address when the
\* entry of the address has its present bit set in the page table, and the
\* line "page table entry doesn't exist" otherwise.
C14_OneReportPerPage ==
  (InShowmapping /\ WLe(ShowBegin, ShowEnd)
   /\ PGOFF(ShowBegin) = 0 /\ PGOFF(ShowEnd) = 0)
  => \A b \in {ShowBegin} : \A n \in {ShowEnd.hi - ShowBegin.hi + 1} :
       /\ Len(out) <= n
       /\ \A i \in 1 .. Len(out) :
            out[i] = ExpectedReport(W(b.hi + i - 1, 0),
                                    ReadPTE(ptab, b.hi + i - 1))
       /\ pc = "prompt" => Len(out) = n

-----------------------------------------------------------------------------
(* C15 *)

\* C15: no handler of commands[] returns a negative value, and so monitor()
\* never leaves its loop, whatever lines it reads.
C15_NeverExits == ret >= 0 /\ pc # "exited"

\* after two setpermission runs on 0x2000, showmappings has reported the
\* page with PTE_W: 0 and PTE_U: 1, and monitor() is at its prompt
C15_Witness ==
  /\ LastFunc = "mon_showmapping"
  /\ pc = "prompt"
  /\ ret = 0
  /\ \E i \in 1 .. Len(out) :
       out[i] = Msg(FMT_MAPPING, <<W(2, 0), W(5, 0), 1, 0, 1>>)

-----------------------------------------------------------------------------
(* C16 *)

\* C16: a line of nothing but spaces, tabs, carriage returns and line
\* feeds, the empty line too, gives argc = 0, no handler, no message, and
\* the next prompt.
C16_WhitespaceOnly ==
  (line # NULLLINE
   /\ \A i \in 1 .. Len(line) : line[i] \in {" ", "\t", "\r", "\n"})
  => /\ argc = 0
     /\ argv[0] = 0
     /\ handler = 0
     /\ out = <<>>
     /\ ret = 0
     /\ pc = "prompt"

\* the line of a space, a tab, a carriage return and a line feed has been
\* read, and all of its buffer is terminators
C16_Witness ==
  /\ line = <<" ", "\t", "\r", "\n">>
  /\ buf = <<NUL, NUL, NUL, NUL, NUL>>
  /\ argc = 0
  /\ pc = "prompt"

-----------------------------------------------------------------------------
(* C17 *)

\* C17: help prints one line for every entry of the command table, in the
\* order of declaration, each as "<name> - <description>", whatever follows
\* argv[0], and returns 0.
C17_HelpLines ==
  LastFunc = "mon_help" =>
    /\ out = << Msg("%s - %s\n", <<help_name, "Display this list of commands">>),
                Msg("%s - %s\n",
                    <<kerninfo_name, "Display information about the kernel">>),
                Msg("%s - %s\n",
                    <<backtrace_name, "Display backtrack of the call">>),
                Msg("%s - %s\n",
                    <<showmappings_name,
                      "Display virtual/linear to physical mapping">>),
                Msg("%s - %s\n",
                    <<setpremission_name, "Set permission of page table">>) >>
    /\ ret = 0
    /\ pc = "prompt"

\* help a b has printed its five lines
C17_Witness ==
  /\ LastFunc = "mon_help"
  /\ argc = 3
  /\ ArgStr(1) = <<"a">> /\ ArgStr(2) = <<"b">>
  /\ Len(out) = 5
  /\ out[5].args[1] = setpremission_name

-----------------------------------------------------------------------------
(* C18 *)

\* C18: showmappings with argc other than 3, and setpermission with argc
\* other than 4, print their usage string, do not call the page-table
\* accessor, leave every page-table entry as it is, and return 0 to the
\* loop.
C18_UsageOnWrongArgc ==
  [][(pc = "prompt" /\ handler' # 0)
     => \A f \in {commands[handler'].func} :
          /\ (f = "mon_showmapping" /\ argc' # 3)
             => /\ out' = <<Msg("Usage: showmappings BEGIN_ADDR END_ADDR\n",
                                <<>>)>>
                /\ walks' = <<>>
                /\ ptab' = ptab
                /\ ret' = 0
                /\ pc' = "prompt"
          /\ (f = "mon_setpermission" /\ argc' # 4)
             => /\ out' = <<Msg("Usage: setpermission ADDR [s|c] [p|w|u]\n",
                                <<>>)>>
                /\ walks' = <<>>
                /\ ptab' = ptab
                /\ ret' = 0
                /\ pc' = "prompt"]_vars

\* showmappings with three arguments after its name has printed its usage
C18_Witness ==
  /\ LastFunc = "mon_showmapping"
  /\ argc = 4
  /\ out = <<Msg(FMT_USAGE_SHOW, <<>>)>>
  /\ walks = <<>>
  /\ pc = "prompt"

-----------------------------------------------------------------------------
(* C19 *)

\* C19: when the accessor returns none for the address of setpermission,
\* the handler reads and writes nothing through the handle: it does not
\* fault and prints no entry state.
C19_NoAccessThroughNull ==
  (LastFunc = "mon_setpermission" /\ argc = 4
   /\ pgdir_walk(kern_pgdir, strtol16(ArgStr(1)), 0) = NULLPTE)
  => /\ pc # "fault"
     /\ \A i \in 1 .. Len(out) : out[i].fmt \notin {FMT_MAPPING, FMT_NOENTRY}

-----------------------------------------------------------------------------
(* C20 *)

\* C20: the word of a page-table entry changes only in a run of
\* setpermission whose address resolves to that entry; every other command,
\* unknown and dropped lines too, leaves every entry as it is, and
\* setpermission leaves every entry but the addressed one.
C20_OnlySetpermissionWrites ==
  [][ptab' # ptab
     => \A pg \in DOMAIN ptab \cup DOMAIN ptab' :
          ReadPTE(ptab', pg) # ReadPTE(ptab, pg)
          => /\ pc = "prompt"
             /\ handler' # 0
             /\ commands[handler'].func = "mon_setpermission"
             /\ argc' = 4
             /\ \A addr \in {strtol16(CStr(buf', argv'[1]))} :
                  PGNUM(addr) = pg /\ PDX(addr) \in kern_pgdir]_vars

\* setpermission has cleared the present bit of 0x2000, and the entry of
\* the topmost page is the word it was at the start
C20_Witness ==
  /\ LastFunc = "mon_setpermission"
  /\ argc = 4
  /\ Len(out) = 4
  /\ out[2].fmt = FMT_MAPPING
  /\ out[4].fmt = FMT_NOENTRY
  /\ out[2].args[1] = W(2, 0)
  /\ ReadPTE(ptab, 1048575) = W(2748, 99)
  /\ kern_pgdir = {0, 1023}

====
